---- MODULE Spec2Model ----
(***************************************************************************)
(* Model of probability_calculator/__init__.py: evaluate, the sequential   *)
(* reducer _evaluate, and the sharded parallel reducer _parallel_evaluate  *)
(* with its pool workers running _simulation.                              *)
(*                                                                         *)
(* Cards are small integers.  The card domain, the deck builder, the two   *)
(* board generators and the hand oracle live in holdem_functions, which is *)
(* imported but is not part of the source at hand; they are modelled from  *)
(* their contract (sections 3, 4.1 and 6 of the specification).            *)
(*                                                                         *)
(* A shared multiprocessing.Array is a sequence; Python index i is cell    *)
(* i + 1 of the sequence.                                                  *)
(***************************************************************************)
EXTENDS Integers, Sequences, FiniteSets, TLC

\* ---------------------------------------------------------------- bounds
\* Largest cpu_count() explored with the nine-card domain.
MaxW == 2
\* Largest num_iterations explored.
MaxIter == 2
\* Number of evaluate calls one parent process makes.
MaxCalls == 2

\* ------------------------------------------------------ program constants
\* len(hole_cards): evaluate always passes the pair (hole, adversary).
NumPlayers == 2
\* Hand categories: every histogram has 10 buckets.
NumCategories == 10
\* name[-1] is the last decimal digit of the worker's number.
DigitBase == 10

\* Python's None where a list of cards may stand: a value distinct from every
\* list of cards (0 is no card).
None == <<0>>
\* No exception.
NoError == "none"

\* ------------------------------------------------------------- variables
VARIABLES
  env,               \* the machine: cpu_count() and the card domain
  seed,              \* which deterministic oracle the run is linked against
  procCounter,       \* multiprocessing.process._process_counter of the parent
  live,              \* worker processes created and never terminated
  numCalls,          \* evaluate calls made so far
  pc,                \* position of the calling thread
  args,              \* arguments of the current evaluate call
  hole_cards,        \* (hole_cards, adversary_hole_cards)
  given_board,       \* None or the list of given board cards
  deck,              \* generate_deck(all_cards)
  generate_boards,   \* the generator the reducer picked
  trials,            \* the boards the generator yields, in order
  next_trial,        \* next trial of the stream to hand out (1-based)
  status,            \* per trial: "pending", "running", "done", "failed"
  attempts,          \* per trial: how often its evaluation was started
  seen_board,        \* per trial: the board handed to the oracle
  winner_list,       \* list (sequential) or shared Array (parallel)
  result_histograms, \* list of lists (sequential) or shared Array (parallel)
  workers,           \* pool worker number -> its local state
  map_error,         \* first exception pool.map caught, or None
  combined_winner_list,
  combined_histograms,
  result             \* what the call returned or raised

vars == <<env, seed, procCounter, live, numCalls, pc, args, hole_cards,
          given_board, deck, generate_boards, trials, next_trial, status,
          attempts, seen_board, winner_list, result_histograms, workers,
          map_error, combined_winner_list, combined_histograms, result>>

\* ---------------------------------------------------------------- helpers
\* The sum of a sequence of integers, by halves.
SumSeq(s) ==
  LET sum[t \in Seq(Int)] ==
        IF Len(t) = 0 THEN 0
        ELSE IF Len(t) = 1 THEN t[1]
        ELSE LET half == Len(t) \div 2
             IN sum[SubSeq(t, 1, half)] + sum[SubSeq(t, half + 1, Len(t))]
  IN sum[s]

Zeros(n) == [i \in 1..n |-> 0]

Range(s) == {s[i] : i \in 1..Len(s)}

RECURSIVE Flatten(_)
Flatten(ss) == IF ss = <<>> THEN <<>> ELSE Head(ss) \o Flatten(Tail(ss))

\* ------------------------------------------- holdem_functions (contract)
\* The deck: every card of the domain that is not among the known cards,
\* in ascending order.
RECURSIVE AscendingFrom(_, _, _)
AscendingFrom(c, top, known) ==
  IF c > top THEN <<>>
  ELSE (IF c \in known THEN <<>> ELSE <<c>>) \o AscendingFrom(c + 1, top, known)

generate_deck(all_cards, cards) ==
  AscendingFrom(1, cards, Range(Flatten(all_cards)))

\* Every combination of k cards of d exactly once, in a fixed order.
RECURSIVE Combinations(_, _)
Combinations(d, k) ==
  IF k = 0 THEN << <<>> >>
  ELSE IF Len(d) < k THEN <<>>
  ELSE LET with == Combinations(Tail(d), k - 1)
           without == Combinations(Tail(d), k)
       IN [i \in 1..Len(with) |-> <<Head(d)>> \o with[i]] \o without

\* Exhaustive mode: all completions of length 5 - board_length; the
\* iteration budget is not used.
generate_exhaustive_boards(d, num_iterations, board_length) ==
  { Combinations(d, 5 - board_length) }

\* Random mode: num_iterations completions, each an independent sample of
\* 5 - board_length distinct cards of the deck (none when the deck is too
\* small to sample from).  The operator is the set of possible streams.
generate_random_boards(d, num_iterations, board_length) ==
  LET samples == Range(Combinations(d, 5 - board_length))
  IN IF samples = {} THEN { <<>> }
     ELSE [1..num_iterations -> samples]

\* The oracle.  It is deterministic: what it answers depends only on the
\* hole cards and the board.  OracleTable lists the answers it can give: a
\* result (category, strength key) per player, or a fault.
Fault == <<>>

OracleTable ==
  << << <<1, 5>>, <<1, 5>> >>,
     << <<2, 3>>, <<0, 9>> >>,
     << <<3, 1>>, <<0, 9>> >>,
     << <<0, 7>>, <<9, 2>> >>,
     Fault >>

\* The cards of a board as the hand evaluation reads them.
preprocess_board(board) == SumSeq(board)

OracleRow(sd, holes, pre) ==
  OracleTable[((sd + pre + SumSeq(Flatten(holes))) % Len(OracleTable)) + 1]

\* detect_hand for player index (1-based) on a preprocessed board.
detect_hand(sd, holes, index, pre) ==
  LET row == OracleRow(sd, holes, pre)
  IN IF row = Fault THEN Fault ELSE row[index]

Better(a, b) == a[1] > b[1] \/ (a[1] = b[1] /\ a[2] > b[2])

\* 0 = tie, i = player i-1 wins.
compare_hands(result_list) ==
  IF \A i \in 1..Len(result_list) : result_list[i] = result_list[1] THEN 0
  ELSE CHOOSE i \in 1..Len(result_list) :
         \A j \in 1..Len(result_list) : j # i => Better(result_list[i], result_list[j])

\* ------------------------------------------------------------ environment
\* The machines explored: up to MaxW cores over a nine-card domain (one
\* completion of any given board), and DigitBase + 1 cores over a ten-card
\* domain (two completions of a four-card board).
Envs ==
  {[cpu_count |-> w, cards |-> 9] : w \in 1..MaxW}
    \cup {[cpu_count |-> DigitBase + 1, cards |-> 10]}

ValidHands == {[hole_cards |-> <<1, 2>>, adversary_hole_cards |-> <<3, 4>>]}

\* Calls with well-formed arguments.
ValidArgs(e) ==
  IF e.cards = 9
  THEN {[hole_cards |-> h.hole_cards,
         adversary_hole_cards |-> h.adversary_hole_cards,
         given_board |-> b, is_parallel |-> p, num_iterations |-> n] :
          h \in ValidHands,
          b \in {None, <<>>, <<5, 6, 7, 8>>, <<5, 6, 7, 8, 9>>},
          p \in BOOLEAN, n \in 0..MaxIter}
  ELSE {[hole_cards |-> h.hole_cards,
         adversary_hole_cards |-> h.adversary_hole_cards,
         given_board |-> <<5, 6, 7, 8>>, is_parallel |-> p,
         num_iterations |-> 1] :
          h \in ValidHands, p \in BOOLEAN}

\* Calls with ill-formed arguments: a card given twice, three hole cards.
InvalidArgs(e) ==
  IF e.cards = 9
  THEN {[hole_cards |-> h, adversary_hole_cards |-> <<3, 4>>,
         given_board |-> b, is_parallel |-> p, num_iterations |-> 1] :
          h \in {<<1, 1>>, <<1, 2, 9>>},
          b \in {<<5, 6, 7, 8>>}, p \in BOOLEAN}
       \cup
       {[hole_cards |-> <<1, 2>>, adversary_hole_cards |-> <<3, 4>>,
         given_board |-> <<1, 5, 6, 7>>, is_parallel |-> p,
         num_iterations |-> 1] : p \in BOOLEAN}
  ELSE {}

Args(e) == ValidArgs(e) \cup InvalidArgs(e)

\* ------------------------------------------------------------ shared Array
\* ctypes array indexing: a negative index counts from the end; anything
\* still outside 0..len-1 raises IndexError.
Wrap(arr, i) == IF i < 0 THEN i + Len(arr) ELSE i

InRange(arr, i) == Wrap(arr, i) >= 0 /\ Wrap(arr, i) < Len(arr)

GetItem(arr, i) == arr[Wrap(arr, i) + 1]

SetItem(arr, i, v) == [arr EXCEPT ![Wrap(arr, i) + 1] = v]

\* ------------------------------------------------------------------ state
NoResult == [kind |-> "none", num |-> <<0, 0>>, den |-> 0]

Raised(kind) == [kind |-> kind, num |-> <<0, 0>>, den |-> 0]

IdleWorker ==
  [pc |-> "idle", task |-> 0, proc_id |-> 0, result_list |-> <<>>,
   winner_index |-> 0, index |-> 0, reg |-> 0, given_board |-> None]

\* A worker between two tasks: its locals are gone, the attributes
\* _simulation_init set in its process (lines 141-147) stay.
AtRest(w) == [IdleWorker EXCEPT !.given_board = w.given_board]

Init ==
  /\ env \in Envs
  /\ seed \in 0..(Len(OracleTable) - 1)
  /\ procCounter = 0
  /\ live = {}
  /\ numCalls = 0
  /\ pc = "idle"
  /\ args = [hole_cards |-> <<>>, adversary_hole_cards |-> <<>>,
             given_board |-> None, is_parallel |-> FALSE, num_iterations |-> 0]
  /\ hole_cards = <<>>
  /\ given_board = None
  /\ deck = <<>>
  /\ generate_boards = "none"
  /\ trials = <<>>
  /\ next_trial = 1
  /\ status = <<>>
  /\ attempts = <<>>
  /\ seen_board = <<>>
  /\ winner_list = <<>>
  /\ result_histograms = <<>>
  /\ workers = <<>>
  /\ map_error = NoError
  /\ combined_winner_list = <<>>
  /\ combined_histograms = <<>>
  /\ result = NoResult

\* --------------------------------------------------------------- evaluate
\* Lines 43-61: build the card tuples and the deck, then enter a reducer.
\* Nothing is validated.
evaluate(a) ==
  /\ pc \in {"idle", "done"}
  /\ numCalls < MaxCalls
  /\ numCalls' = numCalls + 1
  /\ args' = a
  /\ hole_cards' = <<a.hole_cards, a.adversary_hole_cards>>
  /\ given_board' = a.given_board
  /\ deck' = generate_deck(
               <<a.hole_cards, a.adversary_hole_cards>>
                 \o (IF a.given_board # None THEN <<a.given_board>> ELSE <<>>),
               env.cards)
  /\ pc' = IF a.is_parallel THEN "_parallel_evaluate" ELSE "_evaluate"
  /\ generate_boards' = "none"
  /\ trials' = <<>>
  /\ next_trial' = 1
  /\ status' = <<>>
  /\ attempts' = <<>>
  /\ seen_board' = <<>>
  /\ winner_list' = <<>>
  /\ result_histograms' = <<>>
  /\ workers' = <<>>
  /\ map_error' = NoError
  /\ combined_winner_list' = <<>>
  /\ combined_histograms' = <<>>
  /\ result' = NoResult
  /\ UNCHANGED <<env, seed, procCounter, live>>

\* The board a trial is evaluated on (lines 80-84 and 111-115): a copy of
\* the given board extended by the completion when the given board is
\* truthy, else the completion itself.
Truthy(b) == b # None /\ Len(b) > 0

NewBoard(gb, remaining_board) ==
  IF Truthy(gb) THEN gb \o remaining_board ELSE remaining_board

\* Mutant: the board is the given board itself, not a copy of it, so extend
\* appends the completion to the given board.
GivenBoardAliased(gb, remaining_board) ==
  IF Truthy(gb) THEN gb \o remaining_board ELSE gb

\* Lines 81-82 and 112-113: the given board after a trial's board was
\* built.  given_board[:] is a copy, so extend leaves the given board as it
\* was.
GivenBoardAfter(gb, remaining_board) == gb

\* Lines 87-92 and 125-131: the results of all players, or Fault.
DetectAll(sd, holes, board) ==
  LET pre == preprocess_board(board)
  IN IF OracleRow(sd, holes, pre) = Fault THEN Fault
     ELSE [i \in 1..Len(holes) |-> detect_hand(sd, holes, i, pre)]

\* The streams the chosen generator can yield.
Streams(mode, d, num_iterations, board_length) ==
  IF mode = "exhaustive"
  THEN generate_exhaustive_boards(d, num_iterations, board_length)
  ELSE generate_random_boards(d, num_iterations, board_length)

\* ------------------------------------------------------ sequential reducer
\* Lines 71-75: exhaustive whenever a board is given, else random.
SeqChooseGenerator(gb) == IF gb # None THEN "exhaustive" ELSE "random"

\* Line 71.
SeqBoardLength(gb) == IF gb = None THEN 0 ELSE Len(gb)

\* Lines 65-78: the empty tallies, the generator, the stream of boards.
SeqInit ==
  /\ pc = "_evaluate"
  /\ winner_list' = Zeros(Len(hole_cards) + 1)
  /\ result_histograms' = [player \in 1..Len(hole_cards) |-> Zeros(NumCategories)]
  /\ generate_boards' = SeqChooseGenerator(given_board)
  /\ trials' \in Streams(SeqChooseGenerator(given_board), deck,
                         args.num_iterations, SeqBoardLength(given_board))
  /\ next_trial' = 1
  /\ status' = [i \in 1..Len(trials') |-> "pending"]
  /\ attempts' = Zeros(Len(trials'))
  /\ seen_board' = [i \in 1..Len(trials') |-> <<>>]
  /\ pc' = "seq_loop"
  /\ UNCHANGED <<env, seed, procCounter, live, numCalls, args, hole_cards,
                 given_board, deck, workers, map_error, combined_winner_list,
                 combined_histograms, result>>

\* Lines 95-98: one trial's increments of the sequential tallies.
SeqTabulate(wl, rh, result_list) ==
  LET winner_index == compare_hands(result_list)
  IN [winner_list |-> [wl EXCEPT ![winner_index + 1] = @ + 1],
      result_histograms |->
        [index \in 1..Len(rh) |->
           [rh[index] EXCEPT ![result_list[index][1] + 1] = @ + 1]]]

\* Lines 78-98: one iteration of the loop.  An exception of the oracle
\* leaves the loop and the call.
SeqStep ==
  /\ pc = "seq_loop"
  /\ next_trial <= Len(trials)
  /\ LET board == NewBoard(given_board, trials[next_trial])
         result_list == DetectAll(seed, hole_cards, board)
     IN /\ attempts' = [attempts EXCEPT ![next_trial] = @ + 1]
        /\ seen_board' = [seen_board EXCEPT ![next_trial] = board]
        /\ given_board' = GivenBoardAfter(given_board, trials[next_trial])
        /\ IF result_list = Fault
           THEN /\ status' = [status EXCEPT ![next_trial] = "failed"]
                /\ result' = Raised("OracleFailure")
                /\ pc' = "done"
                /\ UNCHANGED <<winner_list, result_histograms, next_trial>>
           ELSE /\ status' = [status EXCEPT ![next_trial] = "done"]
                /\ winner_list' =
                     SeqTabulate(winner_list, result_histograms, result_list).winner_list
                /\ result_histograms' =
                     SeqTabulate(winner_list, result_histograms, result_list).result_histograms
                /\ next_trial' = next_trial + 1
                /\ UNCHANGED <<result, pc>>
  /\ UNCHANGED <<env, seed, procCounter, live, numCalls, args, hole_cards,
                 deck, generate_boards, trials, workers, map_error,
                 combined_winner_list, combined_histograms>>

\* Mutant: the numerators are taken one slot too low (ties and player 0).
ProbabilitiesShifted(wl) ==
  IF SumSeq(wl) = 0 THEN Raised("ZeroDivisionError")
  ELSE [kind |-> "ok", num |-> <<wl[1], wl[2]>>, den |-> SumSeq(wl)]

\* Lines 100-101 and 187-188: the pair returned from a win/tie list, or the
\* ZeroDivisionError of dividing by float(0).
Probabilities(wl) ==
  IF SumSeq(wl) = 0 THEN Raised("ZeroDivisionError")
  ELSE [kind |-> "ok", num |-> <<wl[2], wl[3]>>, den |-> SumSeq(wl)]

SeqReturn ==
  /\ pc = "seq_loop"
  /\ next_trial > Len(trials)
  /\ result' = Probabilities(winner_list)
  /\ pc' = "done"
  /\ UNCHANGED <<env, seed, procCounter, live, numCalls, args, hole_cards,
                 given_board, deck, generate_boards, trials, next_trial, status,
                 attempts, seen_board, winner_list, result_histograms, workers,
                 map_error, combined_winner_list, combined_histograms>>

\* -------------------------------------------------------- parallel reducer
\* Mutant: the generator is picked by the truth value of the board, so an
\* empty list selects random mode.
ParChooseGeneratorTruthy(gb) == IF Truthy(gb) THEN "exhaustive" ELSE "random"

\* Lines 164-167.
ParChooseGenerator(gb) == IF gb # None THEN "exhaustive" ELSE "random"

\* Line 161.
ParBoardLength(gb) == IF gb = None THEN 0 ELSE Len(gb)

\* Line 169: Pool(processes=num_processes) starts num_processes workers.
\* Each takes the next value of the parent's process counter as its number
\* (its name is "PoolWorker-<number>").
PoolWorkers(counter, num_processes) == (counter + 1)..(counter + num_processes)

\* Lines 151-173, up to the dispatch of pool.map: the shared arrays, the
\* generator, the pool, and the list pool.map makes of the stream.  The
\* function never closes, terminates or joins the pool.
ParInit ==
  /\ pc = "_parallel_evaluate"
  /\ LET num_players == Len(hole_cards)
         num_processes == env.cpu_count
     IN /\ winner_list' = Zeros(num_processes * (num_players + 1))
        /\ result_histograms' = Zeros(num_processes * num_players * NumCategories)
        /\ workers' = [n \in PoolWorkers(procCounter, num_processes) |->
                          [IdleWorker EXCEPT !.given_board = given_board]]
        /\ procCounter' = procCounter + num_processes
        /\ live' = live \cup PoolWorkers(procCounter, num_processes)
  /\ generate_boards' = ParChooseGenerator(given_board)
  /\ trials' \in Streams(ParChooseGenerator(given_board), deck,
                         args.num_iterations, ParBoardLength(given_board))
  /\ next_trial' = 1
  /\ status' = [i \in 1..Len(trials') |-> "pending"]
  /\ attempts' = Zeros(Len(trials'))
  /\ seen_board' = [i \in 1..Len(trials') |-> <<>>]
  /\ pc' = "pool_map"
  /\ UNCHANGED <<env, seed, numCalls, args, hole_cards, given_board, deck,
                 map_error, combined_winner_list, combined_histograms, result>>

\* Line 118: int(name[-1]) - 1, the last decimal digit of the worker's
\* number, less one.
ProcId(n) == (n % DigitBase) - 1

\* Line 134: the win/tie cell a worker increments.
WinnerCell(proc_id, num_players, winner_index) ==
  proc_id * (num_players + 1) + winner_index

\* Lines 137-138: the histogram cell a worker increments for player index
\* (0-based) and hand category.
HistCell(proc_id, num_players, index, category) ==
  NumCategories * (proc_id * num_players + index) + category

\* Mutant: the exception of a task is dropped.
CaughtNothing(err, kind) == NoError

\* pool.map keeps the first exception a task raised.
Caught(err, kind) == IF err = NoError THEN kind ELSE err

\* Mutant: a task that ends with an exception is never reported to the
\* caller.
TaskFailsUnreported(n, kind) ==
  /\ UNCHANGED <<status, map_error>>
  /\ workers' = [workers EXCEPT ![n] = AtRest(workers[n])]

\* A task ends with an exception: the worker reports it and is idle again.
TaskFails(n, kind) ==
  /\ status' = [status EXCEPT ![workers[n].task] = "failed"]
  /\ map_error' = Caught(map_error, kind)
  /\ workers' = [workers EXCEPT ![n] = AtRest(workers[n])]

\* Lines 104-133: an idle worker takes the next board of the list, builds
\* the board, derives its shard index and runs the oracle.
WTake(n) ==
  /\ pc = "pool_map"
  /\ workers[n].pc = "idle"
  /\ next_trial <= Len(trials)
  /\ next_trial' = next_trial + 1
  /\ attempts' = [attempts EXCEPT ![next_trial] = @ + 1]
  /\ LET board == NewBoard(workers[n].given_board, trials[next_trial])
         after == GivenBoardAfter(workers[n].given_board, trials[next_trial])
         result_list == DetectAll(seed, hole_cards, board)
     IN /\ seen_board' = [seen_board EXCEPT ![next_trial] = board]
        /\ IF result_list = Fault
           THEN /\ status' = [status EXCEPT ![next_trial] = "failed"]
                /\ map_error' = Caught(map_error, "OracleFailure")
                /\ workers' = [workers EXCEPT ![n].given_board = after]
           ELSE /\ status' = [status EXCEPT ![next_trial] = "running"]
                /\ workers' = [workers EXCEPT ![n] =
                     [pc |-> "read_winner", task |-> next_trial,
                      proc_id |-> ProcId(n), result_list |-> result_list,
                      winner_index |-> compare_hands(result_list),
                      index |-> 0, reg |-> 0, given_board |-> after]]
                /\ UNCHANGED map_error
  /\ UNCHANGED <<env, seed, procCounter, live, numCalls, pc, args, hole_cards,
                 given_board, deck, generate_boards, trials, winner_list,
                 result_histograms, combined_winner_list, combined_histograms,
                 result>>

\* Line 134, the read of winner_list[...] += 1.
WReadWinner(n) ==
  /\ pc = "pool_map"
  /\ workers[n].pc = "read_winner"
  /\ LET cell == WinnerCell(workers[n].proc_id, Len(hole_cards),
                            workers[n].winner_index)
     IN IF InRange(winner_list, cell)
        THEN /\ workers' = [workers EXCEPT ![n].pc = "write_winner",
                                           ![n].reg = GetItem(winner_list, cell)]
             /\ UNCHANGED <<status, map_error>>
        ELSE TaskFails(n, "IndexError")
  /\ UNCHANGED <<env, seed, procCounter, live, numCalls, pc, args, hole_cards,
                 given_board, deck, generate_boards, trials, next_trial,
                 attempts, seen_board, winner_list, result_histograms,
                 combined_winner_list, combined_histograms, result>>

\* Line 134, the write of winner_list[...] += 1.
WWriteWinner(n) ==
  /\ pc = "pool_map"
  /\ workers[n].pc = "write_winner"
  /\ winner_list' =
       SetItem(winner_list,
               WinnerCell(workers[n].proc_id, Len(hole_cards),
                          workers[n].winner_index),
               workers[n].reg + 1)
  /\ workers' = [workers EXCEPT ![n].pc = "read_hist", ![n].index = 0]
  /\ UNCHANGED <<env, seed, procCounter, live, numCalls, pc, args, hole_cards,
                 given_board, deck, generate_boards, trials, next_trial, status,
                 attempts, seen_board, result_histograms, map_error,
                 combined_winner_list, combined_histograms, result>>

\* The histogram cell of the worker's current player.
WorkerHistCell(w, num_players) ==
  HistCell(w.proc_id, num_players, w.index, w.result_list[w.index + 1][1])

\* Lines 136-138, the read of result_histograms[...] += 1.
WReadHist(n) ==
  /\ pc = "pool_map"
  /\ workers[n].pc = "read_hist"
  /\ LET cell == WorkerHistCell(workers[n], Len(hole_cards))
     IN IF InRange(result_histograms, cell)
        THEN /\ workers' = [workers EXCEPT ![n].pc = "write_hist",
                                           ![n].reg = GetItem(result_histograms, cell)]
             /\ UNCHANGED <<status, map_error>>
        ELSE TaskFails(n, "IndexError")
  /\ UNCHANGED <<env, seed, procCounter, live, numCalls, pc, args, hole_cards,
                 given_board, deck, generate_boards, trials, next_trial,
                 attempts, seen_board, winner_list, result_histograms,
                 combined_winner_list, combined_histograms, result>>

\* Lines 136-138, the write of result_histograms[...] += 1; after the last
\* player the task is complete.
WWriteHist(n) ==
  /\ pc = "pool_map"
  /\ workers[n].pc = "write_hist"
  /\ result_histograms' =
       SetItem(result_histograms,
               WorkerHistCell(workers[n], Len(hole_cards)),
               workers[n].reg + 1)
  /\ IF workers[n].index + 1 < Len(hole_cards)
     THEN /\ workers' = [workers EXCEPT ![n].pc = "read_hist",
                                        ![n].index = @ + 1]
          /\ UNCHANGED status
     ELSE /\ workers' = [workers EXCEPT ![n] = AtRest(workers[n])]
          /\ status' = [status EXCEPT ![workers[n].task] = "done"]
  /\ UNCHANGED <<env, seed, procCounter, live, numCalls, pc, args, hole_cards,
                 given_board, deck, generate_boards, trials, next_trial,
                 attempts, seen_board, winner_list, map_error,
                 combined_winner_list, combined_histograms, result>>

\* Line 173: pool.map re-raises in the caller the exception a task raised,
\* as soon as it is reported.  The call is over; what the workers still do
\* with the arrays of this call is read by nobody and is not followed.
MapRaise ==
  /\ pc = "pool_map"
  /\ map_error # NoError
  /\ result' = Raised(map_error)
  /\ pc' = "done"
  /\ UNCHANGED <<env, seed, procCounter, live, numCalls, args, hole_cards,
                 given_board, deck, generate_boards, trials, next_trial, status,
                 attempts, seen_board, winner_list, result_histograms, workers,
                 map_error, combined_winner_list, combined_histograms>>

\* Lines 175-180: every cell of the shared win/tie array is added into
\* slot index % (num_players + 1).
CombineWinners(wl, num_players) ==
  [j \in 1..(num_players + 1) |->
     SumSeq([k \in 1..Len(wl) |->
               IF (k - 1) % (num_players + 1) = j - 1 THEN wl[k] ELSE 0])]

\* Mutant: the player of a histogram cell is taken as index % num_players.
CombineHistogramsByCell(rh, num_players) ==
  [player \in 1..num_players |->
     [c \in 1..NumCategories |->
        SumSeq([k \in 1..Len(rh) |->
                  IF /\ (k - 1) % num_players = player - 1
                     /\ (k - 1) % NumCategories = c - 1
                  THEN rh[k] ELSE 0])]]

\* Lines 176-182: every cell of the shared histogram array is added into
\* [(index // 10) % num_players][index % 10].
CombineHistograms(rh, num_players) ==
  [player \in 1..num_players |->
     [c \in 1..NumCategories |->
        SumSeq([k \in 1..Len(rh) |->
                  IF /\ ((k - 1) \div NumCategories) % num_players = player - 1
                     /\ (k - 1) % NumCategories = c - 1
                  THEN rh[k] ELSE 0])]]

ParProbabilities(wl) == Probabilities(wl)

\* Mutant: the caller goes on as soon as every board has been handed to a
\* worker (as after map_async without get).
MapReturnedEarly ==
  /\ map_error = NoError
  /\ next_trial > Len(trials)

\* Line 173: pool.map returns once every task has reported and no task
\* raised an exception; until then the caller is blocked.
MapReturned ==
  /\ map_error = NoError
  /\ \A i \in 1..Len(trials) : status[i] \in {"done", "failed"}

\* Lines 173-188: pool.map returned; reduce the shards and return.
ParReduce ==
  /\ pc = "pool_map"
  /\ MapReturned
  /\ combined_winner_list' = CombineWinners(winner_list, Len(hole_cards))
  /\ combined_histograms' = CombineHistograms(result_histograms, Len(hole_cards))
  /\ result' = ParProbabilities(winner_list)
  /\ pc' = "done"
  /\ UNCHANGED <<env, seed, procCounter, live, numCalls, args, hole_cards,
                 given_board, deck, generate_boards, trials, next_trial, status,
                 attempts, seen_board, winner_list, result_histograms, workers,
                 map_error>>

\* ----------------------------------------------------------- specification
Next ==
  \/ \E a \in Args(env) : evaluate(a)
  \/ SeqInit
  \/ SeqStep
  \/ SeqReturn
  \/ ParInit
  \/ \E n \in DOMAIN workers : WTake(n)
  \/ \E n \in DOMAIN workers : WReadWinner(n)
  \/ \E n \in DOMAIN workers : WWriteWinner(n)
  \/ \E n \in DOMAIN workers : WReadHist(n)
  \/ \E n \in DOMAIN workers : WWriteHist(n)
  \/ MapRaise
  \/ ParReduce

Spec == Init /\ [][Next]_vars

\* Lines 104-138: a step of some worker of the pool.
WorkerStep ==
  \E n \in DOMAIN workers :
    \/ WTake(n)
    \/ WReadWinner(n)
    \/ WWriteWinner(n)
    \/ WReadHist(n)
    \/ WWriteHist(n)

\* Lines 150-188: a step of the caller inside _parallel_evaluate.
CallerStep == ParInit \/ MapRaise \/ ParReduce

\* The operating system keeps running the caller while it can go on, and
\* some worker of the pool while one has work; whether evaluate is called
\* again is up to the client.
FairSpec ==
  /\ Init
  /\ [][Next]_vars
  /\ WF_vars(CallerStep)
  /\ WF_vars(WorkerStep)

\* ------------------------------------------------------------------ claims
\* What the sequential loop accumulates over a stream of boards.
RECURSIVE SeqTally(_, _, _)
SeqTally(wl, rh, boards) ==
  IF boards = <<>> THEN [winner_list |-> wl, result_histograms |-> rh]
  ELSE LET t == SeqTabulate(wl, rh,
                  DetectAll(seed, hole_cards, NewBoard(given_board, Head(boards))))
       IN SeqTally(t.winner_list, t.result_histograms, Tail(boards))

SeqTallyOf(boards) ==
  SeqTally(Zeros(NumPlayers + 1),
           [player \in 1..NumPlayers |-> Zeros(NumCategories)], boards)

\* Well-formed input: two hole cards per player, at most five board cards,
\* no card given twice.
NoDuplicates(s) == Cardinality(Range(s)) = Len(s)

IsValidInput(a) ==
  /\ Len(a.hole_cards) = 2
  /\ Len(a.adversary_hole_cards) = 2
  /\ a.given_board # None => Len(a.given_board) <= 5
  /\ NoDuplicates(a.hole_cards \o a.adversary_hole_cards
                    \o (IF a.given_board = None THEN <<>> ELSE a.given_board))

\* The winner designation of trial i.
WinnerOf(i) ==
  compare_hands(DetectAll(seed, hole_cards, NewBoard(given_board, trials[i])))

Returned == pc = "done" /\ result.kind = "ok"

ParallelCall == args.is_parallel

SequentialCall == numCalls > 0 /\ ~args.is_parallel

\* C1: a parallel run with at least one trial returns (combined wins of
\* player 0 / total, combined wins of player 1 / total), the combined counts
\* being the sums over all shards.
C1_ParallelReturnsCombinedWins ==
  (ParallelCall /\ Returned) =>
    /\ result.num = <<combined_winner_list[2], combined_winner_list[3]>>
    /\ result.den = SumSeq(combined_winner_list)

\* C2: in exhaustive mode the combined tally of a parallel run equals the
\* tally the sequential reducer accumulates over the same boards.
C2_ParallelTallyEqualsSequential ==
  (ParallelCall /\ Returned /\ generate_boards = "exhaustive") =>
    /\ combined_winner_list = SeqTallyOf(trials).winner_list
    /\ combined_histograms = SeqTallyOf(trials).result_histograms

\* C3: when a run ends, the tie count plus all win counts equals the number
\* of trials produced, and every trial was evaluated exactly once.
C3_TallyTotalIsTrialCount ==
  (pc = "done" /\ result.kind \in {"ok", "ZeroDivisionError"}) =>
    /\ SumSeq(winner_list) = Len(trials)
    /\ \A i \in 1..Len(trials) : attempts[i] = 1

\* C4: in every parallel call each worker's shard index lies in 0..W-1 and
\* differs from every other worker's, so the cells it writes lie in its own
\* slice of the shared arrays.
C4_ShardIndexInRangeAndDistinct ==
  pc = "pool_map" =>
    \A n \in DOMAIN workers :
      /\ ProcId(n) \in 0..(env.cpu_count - 1)
      /\ \A m \in DOMAIN workers : m # n => ProcId(m) # ProcId(n)

\* C5: a run over zero trials ends in the EmptyTrialSet error, never in the
\* division by a zero total.
C5_ZeroTrialsRaiseEmptyTrialSet ==
  (pc = "done" /\ generate_boards # "none" /\ Len(trials) = 0) =>
    result.kind = "EmptyTrialSet"

\* C6: when the evaluation of a trial fails (oracle fault or failed counter
\* access), the call ends with that error and returns no pair, and no trial
\* is evaluated twice.
C6_TrialFaultFailsCall ==
  /\ \A i \in 1..Len(attempts) : attempts[i] <= 1
  /\ (pc = "done" /\ \E i \in 1..Len(status) : status[i] = "failed") =>
       result.kind \in {"OracleFailure", "IndexError"}

C6_Witness ==
  /\ pc = "done"
  /\ ParallelCall
  /\ Len(trials) = 2
  /\ \E i \in 1..Len(status) : status[i] = "failed"
  /\ result.kind = "OracleFailure"

\* C7: ill-formed input (a duplicated card, a hole-card count other than 2,
\* a board longer than 5) ends evaluate in InvalidInput before a reducer
\* gets the deck and before any trial is generated.
C7_InvalidInputRejected ==
  (numCalls > 0 /\ ~IsValidInput(args)) =>
    /\ pc = "done"
    /\ result.kind = "InvalidInput"
    /\ generate_boards = "none"

\* C8: both reducers pick exhaustive mode exactly when a board is given
\* (also the empty list) and random mode when none is, and in exhaustive mode
\* the stream of boards is the full enumeration whatever the budget.
C8_SameModeRule ==
  generate_boards # "none" =>
    /\ generate_boards = (IF given_board = None THEN "random" ELSE "exhaustive")
    /\ generate_boards = "exhaustive" =>
         trials = Combinations(deck, 5 - Len(given_board))

C8_Witness ==
  /\ pc = "done"
  /\ ParallelCall
  /\ given_board = <<>>
  /\ args.num_iterations = 0
  /\ generate_boards = "exhaustive"
  /\ Len(trials) = 1

\* C9: with a 5-card given board (and a working oracle) both reducers
\* process exactly one trial, the tally total is 1 and each returned
\* probability is 0 or 1.
C9_FullBoardOneTrial ==
  (pc = "done" /\ given_board # None /\ Len(given_board) = 5
     /\ result.kind # "OracleFailure") =>
    /\ Len(trials) = 1
    /\ SumSeq(winner_list) = 1
    /\ result.kind = "ok"
    /\ result.den = 1
    /\ \A i \in 1..2 : result.num[i] \in {0, 1}

\* C10: the sequential reducer returns (winner_list[1] / total,
\* winner_list[2] / total): slot 0 counts the ties, slot i+1 the wins of
\* player i, total is the sum of all slots, so both numerators plus the tie
\* count equal the number of trials.
C10_SequentialPair ==
  (SequentialCall /\ Returned) =>
    /\ \A j \in 0..NumPlayers :
         winner_list[j + 1] = Cardinality({i \in 1..Len(trials) : WinnerOf(i) = j})
    /\ result.num = <<winner_list[2], winner_list[3]>>
    /\ result.den = SumSeq(winner_list)
    /\ result.num[1] + result.num[2] + winner_list[1] = Len(trials)

C10_Witness ==
  /\ SequentialCall
  /\ Returned
  /\ Len(trials) = 2
  /\ winner_list[1] = 2
  /\ result.num = <<0, 0>>

\* The results of all players on trial i.
ResultsOf(i) == DetectAll(seed, hole_cards, NewBoard(given_board, trials[i]))

\* The tally as a count over the set of trials, free of any order.
CountedWinners ==
  [j \in 1..(NumPlayers + 1) |->
     Cardinality({i \in 1..Len(trials) : WinnerOf(i) = j - 1})]

CountedHistograms ==
  [player \in 1..NumPlayers |->
     [c \in 1..NumCategories |->
        Cardinality({i \in 1..Len(trials) : ResultsOf(i)[player][1] = c - 1})]]

\* A parallel call whose pool.map returned.
ParallelCompleted ==
  pc = "done" /\ ParallelCall /\ result.kind \in {"ok", "ZeroDivisionError"}

\* The orders in which the shards are summed: every permutation of up to
\* four shards; for more, the code's order, its reverse and a rotation.
ShardOrders(w) ==
  IF w <= 4
  THEN {f \in [1..w -> 0..(w - 1)] : \A a, b \in 1..w : a # b => f[a] # f[b]}
  ELSE {[k \in 1..w |-> k - 1], [k \in 1..w |-> w - k], [k \in 1..w |-> k % w]}

\* Cell-wise sum of two lists of equal length.
AddLists(a, b) == [k \in 1..Len(a) |-> a[k] + b[k]]

\* The shards of a shared array, each of the given size, summed one after
\* the other in the given order.
RECURSIVE SumShards(_, _, _)
SumShards(arr, size, order) ==
  IF order = <<>> THEN Zeros(size)
  ELSE AddLists(SubSeq(arr, Head(order) * size + 1, (Head(order) + 1) * size),
                SumShards(arr, size, Tail(order)))

\* The reduction does not depend on the order the shards are summed in.
ReductionOrderFree ==
  ParallelCompleted =>
    \A order \in ShardOrders(env.cpu_count) :
      /\ SumShards(winner_list, NumPlayers + 1, order) = combined_winner_list
      /\ SumShards(result_histograms, NumPlayers * NumCategories, order)
           = Flatten(combined_histograms)

\* C11: the combined tally is the same for every order the shards are
\* summed in and for every order in which the workers completed their
\* trials: it is the count of the trials' outcomes.
C11_ReductionIndependentOfOrder ==
  /\ ReductionOrderFree
  /\ ParallelCompleted =>
       /\ combined_winner_list = CountedWinners
       /\ combined_histograms = CountedHistograms

\* C12: the pool of a parallel call is torn down by the end of the call: no
\* worker of it is alive once the call has returned or failed, and the
\* workers of every call are numbered afresh (PoolWorker-1..W).
C12_PoolTornDownAtEndOfCall ==
  /\ pc = "done" => live = {}
  /\ pc = "pool_map" => DOMAIN workers = 1..env.cpu_count

\* C13: the caller reads the shared arrays (reduction, returned pair) only
\* after every trial has been completely processed by a worker: at the read
\* no worker is between the read and the write of a counter.
C13_ReadsOnlyAfterAllTrialsProcessed ==
  (ParallelCall /\ pc = "done" /\ combined_winner_list # <<>>) =>
    /\ next_trial > Len(trials)
    /\ \A i \in 1..Len(trials) : status[i] = "done"
    /\ \A n \in DOMAIN workers : workers[n].pc = "idle"

C13_Witness ==
  /\ ParallelCompleted
  /\ env.cpu_count = 2
  /\ Len(trials) = 2
  /\ winner_list[2] = 1
  /\ winner_list[5] = 1

\* C14: the reduction inverts the workers' write layout: slot j of the
\* combined win/tie list is the sum over the shards w of the cell the
\* workers address as w * (players + 1) + j, and bucket c of player p's
\* combined histogram is the sum over w of cell 10 * (w * players + p) + c.
C14_ReductionInvertsWriteLayout ==
  ParallelCompleted =>
    /\ \A j \in 0..NumPlayers :
         combined_winner_list[j + 1] =
           SumSeq([w \in 1..env.cpu_count |->
                     GetItem(winner_list, WinnerCell(w - 1, NumPlayers, j))])
    /\ \A p \in 0..(NumPlayers - 1) : \A c \in 0..(NumCategories - 1) :
         combined_histograms[p + 1][c + 1] =
           SumSeq([w \in 1..env.cpu_count |->
                     GetItem(result_histograms, HistCell(w - 1, NumPlayers, p, c))])

C14_Witness ==
  /\ ParallelCompleted
  /\ env.cpu_count = 2
  /\ GetItem(winner_list, WinnerCell(1, NumPlayers, 2)) = 1
  /\ GetItem(result_histograms, HistCell(1, NumPlayers, 1, 9)) = 1
  /\ combined_histograms[2][10] = 1

\* The final histogram of a player (1-based): the list the sequential
\* reducer keeps, or the combined histogram of the parallel reducer.
FinalHistogram(player) ==
  IF ParallelCall THEN combined_histograms[player] ELSE result_histograms[player]

\* C15: when a run ends, every player's histogram sums over its 10
\* categories to the number of trials processed, which is also the total of
\* the win/tie tally.
C15_HistogramTotalIsTrialCount ==
  (pc = "done" /\ result.kind \in {"ok", "ZeroDivisionError"}) =>
    \A player \in 1..NumPlayers :
      /\ SumSeq(FinalHistogram(player)) = Len(trials)
      /\ SumSeq(FinalHistogram(player)) = SumSeq(winner_list)

\* The cards of a given board: none when no board is given.
GivenCards(gb) == IF gb = None THEN <<>> ELSE gb

\* C16: processing trials never changes the given board or the hole cards,
\* in the caller or in a worker, and every trial is evaluated on exactly
\* the given board followed by its own completion, 5 cards in all.
C16_GivenBoardUnchanged ==
  numCalls > 0 =>
    /\ given_board = args.given_board
    /\ hole_cards = <<args.hole_cards, args.adversary_hole_cards>>
    /\ \A n \in DOMAIN workers : workers[n].given_board = args.given_board
    /\ \A i \in 1..Len(trials) :
         attempts[i] > 0 =>
           /\ seen_board[i] = GivenCards(args.given_board) \o trials[i]
           /\ Len(seen_board[i]) = 5

C16_Witness ==
  /\ SequentialCall
  /\ pc = "done"
  /\ given_board = <<5, 6, 7, 8>>
  /\ attempts = <<1, 1>>
  /\ seen_board = << <<5, 6, 7, 8, 9>>, <<5, 6, 7, 8, 10>> >>

\* C17: under fair scheduling of the caller and the workers every parallel
\* call eventually finishes, with a probability pair or with an error; the
\* caller never stays inside the call forever.
C17_ParallelCallFinishes ==
  (pc \in {"_parallel_evaluate", "pool_map"}) ~> (pc = "done")

C17_Witness ==
  /\ ParallelCall
  /\ pc = "done"
  /\ result.kind = "IndexError"
  /\ \E i \in 1..Len(status) : status[i] = "failed"

====
